---- MODULE Spec2Model ----
(***************************************************************************)
(* Model of telegram_roster_bot.py: the LeaveTracker (merged-range leave   *)
(* lookup over a Google sheet), the roster extraction and leave update of  *)
(* a parade-state run, and the Telegram conversation that starts a run.    *)
(*                                                                         *)
(* Text values (cell values, names, duties) are sequences of one-character *)
(* strings, so that str.strip, str.upper, the "in" substring test and the  *)
(* f-string formatting are computed as Python computes them.               *)
(***************************************************************************)
EXTENDS Integers, Sequences, FiniteSets, TLC

VARIABLES
    sheet,          \* the main sheet: its non-blank cells
    merged_ranges,  \* the merged ranges of the main sheet, as the API reports them
    grid_rows,      \* the number of rows of the CSV export of the main sheet
    out,            \* the last call and what it returned
    conversations,  \* ConversationHandler's state of each chat of the user
    user_data,      \* context.user_data: one dictionary per user, whatever the chat
    chosen          \* history: the sheet ids picked in each chat's conversation

vars == <<sheet, merged_ranges, grid_rows, out, conversations, user_data, chosen>>

\* the variables of the sheet and of the front end
world == <<sheet, merged_ranges, grid_rows>>
bot == <<conversations, user_data, chosen>>

(***************************************************************************)
(* Bounds of the model.                                                    *)
(***************************************************************************)
\* number of day columns the modelled sheet holds (a real sheet: 28..31)
NumDays == 2
\* largest number of merged ranges in a modelled sheet
MaxMerges == 2
\* largest number of merged ranges in a sheet of a whole run
MaxRunMerges == 1
\* a cell read fails during the lookup of the k-th name, k up to this
MaxFaultAt == 2

(***************************************************************************)
(* Text                                                                    *)
(***************************************************************************)
\* gspread's value of an empty cell
None == <<"None">>
\* pandas' value of an empty CSV field (a float, not a str)
NaN == <<"NaN">>

LowerChars == <<"a","b","c","d","e","f","g","h","i","j","k","l","m",
                "n","o","p","q","r","s","t","u","v","w","x","y","z">>
UpperChars == <<"A","B","C","D","E","F","G","H","I","J","K","L","M",
                "N","O","P","Q","R","S","T","U","V","W","X","Y","Z">>

\* str.upper on one character
UpperChar(c) ==
    IF \E i \in DOMAIN LowerChars : LowerChars[i] = c
    THEN UpperChars[CHOOSE i \in DOMAIN LowerChars : LowerChars[i] = c]
    ELSE c

\* str.upper
Upper(s) == [i \in DOMAIN s |-> UpperChar(s[i])]

\* str.strip (whitespace is the space character)
Strip(s) ==
    LET keep == {i \in DOMAIN s : s[i] /= " "}
    IN  IF keep = {} THEN <<>>
        ELSE LET lo == CHOOSE i \in keep : \A j \in keep : i <= j
                 hi == CHOOSE i \in keep : \A j \in keep : j <= i
             IN  SubSeq(s, lo, hi)

\* Python's "tok in s" on strings
Contains(tok, s) ==
    \E i \in 0..(Len(s) - Len(tok)) : SubSeq(s, i + 1, i + Len(tok)) = tok

\* Python truthiness of an Optional[str]
Truthy(v) == v /= None /\ v /= <<>>

\* str(n) for the day numbers that occur (0..99)
Digit(n) == <<"0","1","2","3","4","5","6","7","8","9">>[n + 1]
Str(n) == IF n < 10 THEN <<Digit(n)>> ELSE <<Digit(n \div 10), Digit(n % 10)>>

(***************************************************************************)
(* Configuration of LeaveTracker                                           *)
(***************************************************************************)
NAME_COLUMN == 2
DAY_1_COLUMN == 4
START_ROW == 6
END_ROW == 17

MC == <<"M","C">>
LL == <<"L","L">>
OSL == <<"O","S","L">>
COMPASSIONATE_LEAVE == <<"C","O","M","P","A","S","S","I","O","N","A","T","E",
                         " ","L","E","A","V","E">>
COURSE == <<"C","O","U","R","S","E">>
LEAVE_TYPES == <<MC, LL, OSL, COMPASSIONATE_LEAVE, COURSE>>

\* the two spreadsheets of the configuration
MAIN_SPREADSHEET_ID == "MAIN_SPREADSHEET_ID"
C1_C5_SPREADSHEET_ID == "C1_C5_SPREADSHEET_ID"

\* os.getenv("CURRENT_MONTH", "OCTOBER")
CURRENT_MONTH == <<"O","C","T","O","B","E","R">>

\* the duty-slot codes and the external-staff code of the roster (the duty codes
\* the report prompt explains)
M1 == <<"M","1">>
M2 == <<"M","2">>
M3 == <<"M","3">>
M4 == <<"M","4">>
CPC == <<"C","P","C">>
DutySlotCodes == {M1, M2, M3, M4}

(***************************************************************************)
(* The sheet: the non-blank cells, keyed by one-based <<row, column>>.     *)
(***************************************************************************)
\* self.sheet.cell(row, col).value
Cell(row, col) ==
    IF <<row, col>> \in DOMAIN sheet THEN sheet[<<row, col>>] ELSE None

\* _is_leave_cell without the test against LEAVE_TYPES: any non-empty cell is a leave
_is_leave_cell_any(cell_value) == Truthy(cell_value)

\* _is_leave_cell matching the whole text against LEAVE_TYPES, not a part of it
_is_leave_cell_exact(cell_value) ==
    IF ~Truthy(cell_value) THEN FALSE
    ELSE \E k \in DOMAIN LEAVE_TYPES : Upper(cell_value) = LEAVE_TYPES[k]

\* LeaveTracker._is_leave_cell
_is_leave_cell(cell_value) ==
    IF ~Truthy(cell_value) THEN FALSE
    ELSE \E k \in DOMAIN LEAVE_TYPES : Contains(LEAVE_TYPES[k], Upper(cell_value))

\* the one-based sheet column of day d (line 123: start_day = start_col - (DAY_1_COLUMN - 1))
DayColumn(d) == DAY_1_COLUMN + d - 1

\* one merge of metadata['sheets'][..]['merges'], read as check_leave_on_day reads it
start_row(merge) == merge.startRowIndex + 1
end_row(merge) == merge.endRowIndex
start_col(merge) == merge.startColumnIndex + 1
end_col(merge) == merge.endColumnIndex
start_day(merge) == start_col(merge) - (DAY_1_COLUMN - 1)
end_day(merge) == end_col(merge) - (DAY_1_COLUMN - 1)

\* the merges check_leave_on_day tests the cell of: those over the row and the day
Covers(merge, row_idx, day) ==
    /\ start_row(merge) <= row_idx /\ row_idx <= end_row(merge)
    /\ start_day(merge) <= day /\ day <= end_day(merge)

\* self.sheet.cell(row_idx, start_col).value or ""
LeaveCellValue(merge, row_idx) ==
    LET v == Cell(row_idx, start_col(merge)) IN IF Truthy(v) THEN v ELSE <<>>

\* LeaveTracker.check_leave_on_day: the value returned, and the cells it read on the
\* way (one per merge over the row and the day, up to the merge it returns from)
check_leave_on_day(row_idx, day) ==
    LET hits == {i \in DOMAIN merged_ranges :
                    /\ Covers(merged_ranges[i], row_idx, day)
                    /\ _is_leave_cell(LeaveCellValue(merged_ranges[i], row_idx))}
        last == IF hits = {} THEN Len(merged_ranges)
                ELSE CHOOSE i \in hits : \A j \in hits : i <= j
    IN  [result |-> IF hits = {} THEN None
                    ELSE <<Strip(LeaveCellValue(merged_ranges[last], row_idx)),
                           start_day(merged_ranges[last]),
                           end_day(merged_ranges[last])>>,
         reads  |-> {[merge |-> i, cell |-> <<row_idx, start_col(merged_ranges[i])>>] :
                        i \in {j \in 1..last : Covers(merged_ranges[j], row_idx, day)}}]

\* the None that _find_person_row returns for "no such row" (rows are one-based)
NoRow == 0

\* LeaveTracker._find_person_row: name.strip() raises AttributeError for a name that
\* is no str (pandas' NaN), as soon as a non-empty name cell is compared with it
_find_person_row(name) ==
    LET named == {row \in START_ROW..END_ROW : Truthy(Cell(row, NAME_COLUMN))}
        found == {row \in named : Strip(Cell(row, NAME_COLUMN)) = Strip(name)}
    IN  IF name = NaN
        THEN [raised |-> named /= {}, row |-> NoRow]
        ELSE [raised |-> FALSE,
              row |-> IF found = {} THEN NoRow
                      ELSE CHOOSE row \in found : \A r \in found : row <= r]

(***************************************************************************)
(* The sheets the model draws its inputs from.  A sheet holds the names in *)
(* NAME_COLUMN of rows START_ROW..END_ROW, a last row of the roster window *)
(* below them, the day-of-week labels in its third row and one duty cell   *)
(* per person and day from DAY_1_COLUMN on.  Merging cells keeps the value *)
(* of the upper left cell (the anchor) and empties every other cell of the *)
(* range, as the spreadsheet does.                                         *)
(***************************************************************************)
\* the rows of the roster window of the main grid, df.iloc[5:18] (zero-based 5..17)
ROSTER_FIRST == 5
ROSTER_STOP == 18
\* the rows of the C1/C5 window, df.iloc[5:21]
C1C5_STOP == 21
\* the row of the day-of-week labels, df.iloc[2, col_idx]
DAY_LABEL_ROW == 2

Days == 1..NumDays
WindowRows == (ROSTER_FIRST + 1)..ROSTER_STOP
LastColumn == DayColumn(NumDays)

PA == <<"P","A">>
PB == <<"P","B">>
DayLabel == <<"D","A","Y">>

\* the names of a fully staffed sheet: PA, PB, ... in rows START_ROW..END_ROW,
\* and no name in the last row of the window
BaseNames ==
    [row \in WindowRows |->
        IF row <= END_ROW THEN <<"P", UpperChars[row - START_ROW + 1]>> ELSE None]

\* a merged range of the sheet (one-based rows r1..r2, days d1..d2) and the value
\* its anchor cell holds
MergeInputs(rows, texts) ==
    {m \in [r1 : rows, r2 : rows, d1 : Days, d2 : Days, text : texts] :
        /\ m.r1 <= m.r2 /\ m.d1 <= m.d2
        /\ (m.r1 < m.r2 \/ m.d1 < m.d2)}

\* sequences of at most n elements of S
SeqsUpTo(S, n) == UNION {[1..k -> S] : k \in 0..n}

\* the merge as fetch_sheet_metadata reports it (zero-based, end exclusive)
ApiMerge(m) ==
    [startRowIndex    |-> m.r1 - 1,
     endRowIndex      |-> m.r2,
     startColumnIndex |-> DayColumn(m.d1) - 1,
     endColumnIndex   |-> DayColumn(m.d2)]

InRange(m, row, d) == m.r1 <= row /\ row <= m.r2 /\ m.d1 <= d /\ d <= m.d2

\* the value of the duty cell of (row, day d)
DayCell(ms, duty, row, d) ==
    LET anchored == {i \in DOMAIN ms : ms[i].r1 = row /\ ms[i].d1 = d}
    IN  IF anchored /= {}
        THEN ms[CHOOSE i \in anchored : \A j \in anchored : i <= j].text
        ELSE IF \E i \in DOMAIN ms : InRange(ms[i], row, d) THEN None
        ELSE duty[row]

\* the value of the cell at one-based (row, col) of a sheet of nrows rows
Content(names, duty, ms, nrows, row, col) ==
    IF row > nrows THEN None
    ELSE IF row = DAY_LABEL_ROW + 1
         THEN IF col >= DAY_1_COLUMN THEN DayLabel ELSE None
    ELSE IF row \notin WindowRows THEN None
    ELSE IF col = NAME_COLUMN THEN names[row]
    ELSE IF col >= DAY_1_COLUMN THEN DayCell(ms, duty, row, col - DAY_1_COLUMN + 1)
    ELSE None

\* the sheet as the map of its non-blank cells
SheetOf(names, duty, ms, nrows) ==
    LET filled == {rc \in (1..ROSTER_STOP) \X (1..LastColumn) :
                      Truthy(Content(names, duty, ms, nrows, rc[1], rc[2]))}
    IN  [rc \in filled |-> Content(names, duty, ms, nrows, rc[1], rc[2])]

(***************************************************************************)
(* The front end before any update: ConversationHandler keeps one state    *)
(* per (chat, user), user_data is one dictionary per user.  The model has  *)
(* one user, who talks to the bot in two chats.                            *)
(***************************************************************************)
Chats == {"private", "group"}
END == "END"
SELECTING_DATE == "SELECTING_DATE"
SELECTING_MAIN_SHEET == "SELECTING_MAIN_SHEET"
SELECTING_C1C5_SHEET == "SELECTING_C1C5_SHEET"

NoChoice == [main_sheet_id |-> None, c1c5_sheet_id |-> None]

BotIdle ==
    /\ conversations = [chat \in Chats |-> END]
    /\ user_data = NoChoice
    /\ chosen = [chat \in Chats |-> NoChoice]

(***************************************************************************)
(* LeaveTracker on its own: the sheets of SpecLeave                        *)
(***************************************************************************)
\* anchor values: a leave with lower case and a blank around it, a duty slot
LeaveText == <<"m","c"," ">>
MergeTexts == {LeaveText, M2}
MergeRows == {START_ROW, START_ROW + 1}
QueryRows == {START_ROW, START_ROW + 1, START_ROW + 2}
QueryDays == 0..(NumDays + 1)

\* the names the second spec varies in the first two person rows, and asks for
NameCells == {PA, <<" ","P","A"," ">>, <<"p","a">>, PB, <<" ">>, None}
QueryNames == {PA, <<"P","A"," ">>, <<"p","a">>, PB, <<"P">>, NaN}

AllM1 == [row \in WindowRows |-> IF row <= END_ROW THEN M1 ELSE None]

InitLeave ==
    /\ BotIdle
    /\ grid_rows = ROSTER_STOP
    /\ out = [op |-> "none"]
    /\ \/ \E ms \in SeqsUpTo(MergeInputs(MergeRows, MergeTexts), MaxMerges) :
            /\ merged_ranges = [i \in DOMAIN ms |-> ApiMerge(ms[i])]
            /\ sheet = SheetOf(BaseNames, AllM1, ms, ROSTER_STOP)
       \/ \E n1 \in NameCells, n2 \in NameCells :
            /\ merged_ranges = <<>>
            /\ sheet = SheetOf([BaseNames EXCEPT ![START_ROW] = n1, ![START_ROW + 1] = n2],
                               AllM1, <<>>, ROSTER_STOP)

CheckLeaveOnDay ==
    \E row_idx \in QueryRows, day \in QueryDays :
        /\ out.op = "none"
        /\ out' = [op |-> "check_leave_on_day", row_idx |-> row_idx, day |-> day,
                   result |-> check_leave_on_day(row_idx, day).result,
                   reads |-> check_leave_on_day(row_idx, day).reads]
        /\ UNCHANGED <<world, bot>>

FindPersonRow ==
    \E name \in QueryNames :
        /\ out.op = "none"
        /\ out' = [op |-> "_find_person_row", name |-> name,
                   raised |-> _find_person_row(name).raised,
                   row |-> _find_person_row(name).row]
        /\ UNCHANGED <<world, bot>>

\* the cell values _is_leave_cell is asked about: no value, the empty and a blank
\* text, each leave type in some letter case and with text around it, texts that
\* are no leave, and a value that is no text
EmbeddedRange == <<"m","c"," ","(","5"," ","-"," ","8",")">>
CellValues ==
    {None, <<>>, <<" ">>, <<" ", " ">>, EmbeddedRange, MC, <<"L","l">>,
     <<" ","o","s","l">>, <<"x","O","s","L","x">>,
     <<"C","o","m","p","a","s","s","i","o","n","a","t","e"," ","L","e","a","v","e">>,
     <<"c","o","m","p","a","s","s","i","o","n","a","t","e">>,
     <<"o","n"," ","c","o","u","r","s","e">>, <<"m"," ","c">>, <<"c","m">>,
     M1, CPC, NaN}

\* one call of _is_leave_cell: "not cell_value" is False for NaN, a float, and
\* cell_value.upper() then raises AttributeError
IsLeaveCell ==
    \E cell_value \in CellValues :
        /\ out.op = "none"
        /\ out' = [op |-> "_is_leave_cell", cell_value |-> cell_value,
                   raised |-> cell_value = NaN,
                   result |-> IF cell_value = NaN THEN FALSE
                              ELSE _is_leave_cell(cell_value)]
        /\ UNCHANGED <<world, bot>>

NextLeave == CheckLeaveOnDay \/ FindPersonRow \/ IsLeaveCell

SpecLeave == InitLeave /\ [][NextLeave]_vars

(***************************************************************************)
(* Properties of LeaveTracker (SpecLeave)                                  *)
(***************************************************************************)
IsSpan(result) == result /= None

\* C1: check_leave_on_day returns None or (text, start_day, end_day) with
\* start_day <= day <= end_day, where text contains one of LEAVE_TYPES (in upper
\* case) and is no duty-slot code and not the external-staff code.
C1_LeaveResultIsAbsenceSpan ==
    out.op = "check_leave_on_day" /\ IsSpan(out.result) =>
        /\ out.result[2] <= out.day /\ out.day <= out.result[3]
        /\ \E k \in DOMAIN LEAVE_TYPES : Contains(LEAVE_TYPES[k], Upper(out.result[1]))
        /\ Upper(out.result[1]) \notin DutySlotCodes \cup {CPC}

\* a leave was found, in a range of several days with the day inside it
C1_Witness ==
    /\ out.op = "check_leave_on_day" /\ IsSpan(out.result)
    /\ out.result[2] < out.result[3]
    /\ Upper(out.result[1]) = MC

\* C6: every cell check_leave_on_day reads for a merged range over the person's row
\* and the day is the anchor cell (start_row, start_col) of that range.
C6_ReadsAnchorCell ==
    out.op = "check_leave_on_day" =>
        \A rd \in out.reads :
            rd.cell = <<start_row(merged_ranges[rd.merge]), start_col(merged_ranges[rd.merge])>>

\* C9: when two or more merged ranges lie over the person's row and the day,
\* check_leave_on_day does not return the span of one of them.
C9_OverlapNotSilentlyResolved ==
    /\ out.op = "check_leave_on_day"
    /\ Cardinality({i \in DOMAIN merged_ranges :
                       Covers(merged_ranges[i], out.row_idx, out.day)}) >= 2
    => ~IsSpan(out.result)

\* the name cell and the name are equal up to surrounding whitespace and letter case
SameName(cell_value, name) ==
    Truthy(cell_value) /\ Upper(Strip(cell_value)) = Upper(Strip(name))

\* C10: _find_person_row(name) is the first row of START_ROW..END_ROW whose name cell
\* equals name up to surrounding whitespace and letter case, and None only when no
\* row does.
C10_FindIgnoresCaseAndBlanks ==
    out.op = "_find_person_row" /\ out.name /= NaN =>
        LET same == {row \in START_ROW..END_ROW : SameName(Cell(row, NAME_COLUMN), out.name)}
        IN  out.row = IF same = {} THEN NoRow
                      ELSE CHOOSE row \in same : \A r \in same : row <= r

\* tok occurs in s as a run of consecutive characters
Occurs(tok, s) == \E i \in 1..Len(s) : \E j \in i..Len(s) : SubSeq(s, i, j) = tok

\* C11: for a cell value that is None or a text, _is_leave_cell does not raise and
\* returns a Boolean: False for None, the empty and a blank text, and True exactly
\* when one of MC, LL, OSL, COMPASSIONATE LEAVE, COURSE occurs in the upper-cased
\* text; 'mc (5 - 8)', a leave with its range of days, is a leave.
C11_LeaveCellTotalBySubstring ==
    out.op = "_is_leave_cell" /\ out.cell_value /= NaN =>
        /\ ~out.raised
        /\ out.result \in BOOLEAN
        /\ (out.cell_value = None \/ Strip(out.cell_value) = <<>>) => ~out.result
        /\ out.result <=>
               /\ out.cell_value /= None
               /\ \E tok \in {MC, LL, OSL, COMPASSIONATE_LEAVE, COURSE} :
                      Occurs(tok, Upper(out.cell_value))
        /\ out.cell_value = EmbeddedRange => out.result

\* the leave with an embedded range of days was classified, as a leave
C11_Witness ==
    /\ out.op = "_is_leave_cell" /\ ~out.raised
    /\ out.cell_value = EmbeddedRange
    /\ out.result

(***************************************************************************)
(* A run: process_full_parade_state over the CSV export of the main sheet  *)
(***************************************************************************)
\* pd.read_csv(csv_data, header=None): the cell at zero-based (r, c); an empty
\* field reads as NaN
Df(r, c) == LET v == Cell(r + 1, c + 1) IN IF Truthy(v) THEN v ELSE NaN

\* the number of columns of the export
GridCols == LastColumn

\* extract_date_info: df.iloc[2, col_idx] raises IndexError outside the grid
extract_date_info(col_idx) ==
    IF DAY_LABEL_ROW >= grid_rows \/ col_idx >= GridCols
    THEN [raised |-> TRUE, date |-> 0, day |-> NaN]
    ELSE [raised |-> FALSE, date |-> col_idx - 2, day |-> Df(DAY_LABEL_ROW, col_idx)]

\* the zero-based rows a slice df.iloc[first:stop] selects: those that exist
SliceRows(first, stop) == {r \in first..(stop - 1) : r < grid_rows}

\* prepare_roster_data: df.iloc[5:18, [1, target_date_col]] as rows (Name, Duty)
prepare_roster_data(target_date_col) ==
    [i \in 1..Cardinality(SliceRows(ROSTER_FIRST, ROSTER_STOP)) |->
        [Name |-> Df(ROSTER_FIRST + i - 1, 1),
         Duty |-> Df(ROSTER_FIRST + i - 1, target_date_col)]]

\* f"{leave_reason} ({start_day} {month} - {end_day} {month})"
LeaveInfo(result, month) ==
    result[1] \o <<" ", "(">> \o Str(result[2]) \o <<" ">> \o month
              \o <<" ", "-", " ">> \o Str(result[3]) \o <<" ">> \o month \o <<")">>

\* roster_df[roster_df['Duty'].isna()]['Name'].tolist(), less its last entry when
\* it has more than one
NamesToCheck(roster_df) ==
    LET blank == SelectSeq(roster_df, LAMBDA row : row.Duty = NaN)
        names == [k \in DOMAIN blank |-> blank[k].Name]
    IN  IF Len(names) > 1 THEN SubSeq(names, 1, Len(names) - 1) ELSE names

\* what can fail outside the program: during the leave lookup, in the fetch of
\* the main export (requests' HTTPError) and in pd.read_csv of it (pandas'
\* ParserError and EmptyDataError, subclasses of ValueError)
NoFault == [kind |-> "none", at |-> 0]
InitFaults == {"credentials", "sheet_unavailable", "metadata"}
Faults ==
    {NoFault} \cup {[kind |-> k, at |-> 0] : k \in InitFaults \cup {"fetch", "parse"}}
              \cup {[kind |-> "cell_read", at |-> k] : k \in 1..MaxFaultAt}

\* the lookup of the k-th name raises: a failing cell read, or name.strip() on NaN
LookupRaises(names, k, fault) ==
    \/ fault.kind = "cell_read" /\ fault.at = k
    \/ _find_person_row(names[k]).raised

\* LeaveTracker.check_people_on_day for the names of 1..upto: the results dictionary
check_people_on_day(names, upto, day) ==
    LET keys == {names[k] : k \in {j \in 1..upto : _find_person_row(names[j]).row /= NoRow}}
    IN  [name \in keys |-> check_leave_on_day(_find_person_row(name).row, day).result]

\* the rows of on_leave written into the roster
ApplyLeave(roster_df, results, month) ==
    [i \in DOMAIN roster_df |->
        IF roster_df[i].Name \in DOMAIN results /\ results[roster_df[i].Name] /= None
        THEN [roster_df[i] EXCEPT !.Duty = LeaveInfo(results[roster_df[i].Name], month)]
        ELSE roster_df[i]]

\* update_roster_with_leave_info writing every leave into the roster as soon as it
\* is found, so that a later failure leaves the earlier ones in
update_roster_as_found(roster_df, date, month, fault) ==
    LET names == NamesToCheck(roster_df)
        bad == {k \in DOMAIN names : LookupRaises(names, k, fault)}
        upto == IF bad = {} THEN Len(names)
                ELSE (CHOOSE k \in bad : \A j \in bad : k <= j) - 1
    IN  IF Len(names) = 0 THEN [roster_df |-> roster_df, caught |-> FALSE]
        ELSE IF fault.kind \in InitFaults THEN [roster_df |-> roster_df, caught |-> TRUE]
        ELSE [roster_df |-> ApplyLeave(roster_df, check_people_on_day(names, upto, date), month),
              caught |-> bad /= {}]

\* update_roster_with_leave_info: the roster returned, and whether the except
\* clause was taken ("Continuing without leave information")
update_roster_with_leave_info(roster_df, date, month, fault) ==
    LET names == NamesToCheck(roster_df)
    IN  IF Len(names) = 0 THEN [roster_df |-> roster_df, caught |-> FALSE]
        ELSE IF \/ fault.kind \in InitFaults
                \/ \E k \in DOMAIN names : LookupRaises(names, k, fault)
             THEN [roster_df |-> roster_df, caught |-> TRUE]
        ELSE [roster_df |-> ApplyLeave(roster_df,
                                       check_people_on_day(names, Len(names), date), month),
              caught |-> FALSE]

\* prepare_c1_c5_data: the zero-based rows and columns df.iloc[5:21, [1, col-1, col]]
\* slices from the secondary grid
prepare_c1_c5_data(target_date_col) ==
    [rows |-> ROSTER_FIRST..(C1C5_STOP - 1),
     Name |-> 1,
     PreviousDayDuty |-> target_date_col - 1,
     CurrentDayDuty |-> target_date_col]

\* the sheet ids (gid) of the two spreadsheets
SheetIds == {<<"1">>, <<"2">>}

\* build_csv_url: the export URL, here the spreadsheet and the gid it names
build_csv_url(spreadsheet_id, sheet_id) == [spreadsheet |-> spreadsheet_id, gid |-> sheet_id]

\* fetch_csv_from_url: raise_for_status raises for a gid that names no sheet
FetchRaises(url) == url.gid \notin SheetIds

NoReport == [date |-> 0, day |-> NaN, roster_df |-> <<>>, c1_c5_df |-> <<>>,
             main_gid |-> None, c1_c5_gid |-> None]

\* process_full_parade_state: either it raises, or it returns the report, here the
\* data the three prompts are built from and the sheets the data came from
process_full_parade_state(main_csv_url, c1_c5_csv_url, target_date_col, date, month, fault) ==
    LET info == extract_date_info(target_date_col)
        before == prepare_roster_data(target_date_col)
        updated == update_roster_with_leave_info(before, date, month, fault)
    IN  IF \/ fault.kind \in {"fetch", "parse"} \/ FetchRaises(main_csv_url)
           \/ info.raised \/ FetchRaises(c1_c5_csv_url)
        THEN [raised |-> TRUE, roster_before |-> <<>>, leave_failed |-> FALSE,
              error |-> IF fault.kind = "fetch" \/ FetchRaises(main_csv_url)
                        THEN "HTTPError"
                        ELSE IF fault.kind = "parse" THEN "ParserError"
                        ELSE IF info.raised THEN "IndexError" ELSE "HTTPError",
              report |-> NoReport]
        ELSE [raised |-> FALSE, roster_before |-> before, leave_failed |-> updated.caught,
              error |-> "none",
              report |-> [date |-> info.date, day |-> info.day,
                          roster_df |-> updated.roster_df,
                          c1_c5_df |-> prepare_c1_c5_data(target_date_col),
                          main_gid |-> main_csv_url.gid,
                          c1_c5_gid |-> c1_c5_csv_url.gid]]

(***************************************************************************)
(* The sheets and the runs of SpecRun                                      *)
(***************************************************************************)
Total == <<"T","O","T","A","L">>
Twelve == <<"1","2">>
\* a thirteenth person, in the last row of the roster window
PM == <<"P","M">>
\* the row counts of the export: a full grid, one cut inside the roster window,
\* one cut above the day labels
RowCounts == {ROSTER_STOP, ROSTER_FIRST + 2, DAY_LABEL_ROW}
\* the dates a run is started with: handle_date accepts 1..31
RunDates == 1..(NumDays + 1)

InitRun ==
    /\ BotIdle
    /\ out = [op |-> "none"]
    /\ \E n2 \in {PB, PA, None},
          last \in {<<None, None>>, <<Total, Twelve>>, <<PM, None>>},
          d1 \in {M1, None}, d2 \in {M1, None}, nrows \in RowCounts,
          ms \in SeqsUpTo(MergeInputs(MergeRows, MergeTexts), MaxRunMerges) :
            /\ nrows < ROSTER_STOP => ms = <<>> /\ n2 = PB
            /\ grid_rows = nrows
            /\ merged_ranges = [i \in DOMAIN ms |-> ApiMerge(ms[i])]
            /\ sheet = SheetOf(
                  [BaseNames EXCEPT ![START_ROW + 1] = n2, ![ROSTER_STOP] = last[1]],
                  [AllM1 EXCEPT ![START_ROW] = d1, ![START_ROW + 1] = d2,
                                ![ROSTER_STOP] = last[2]],
                  ms, nrows)

\* handle_date's call: target_column = date + 2
RunParadeState ==
    \E date \in RunDates, fault \in Faults, gid \in {<<"1">>} :
        /\ out.op = "none"
        /\ LET run == process_full_parade_state(
                      build_csv_url(MAIN_SPREADSHEET_ID, gid),
                      build_csv_url(C1_C5_SPREADSHEET_ID, gid),
                      date + 2, date, CURRENT_MONTH, fault)
           IN  out' = [op |-> "process_full_parade_state", date |-> date, fault |-> fault,
                       raised |-> run.raised, roster_before |-> run.roster_before,
                       leave_failed |-> run.leave_failed, report |-> run.report]
        /\ UNCHANGED <<world, bot>>

NextRun == RunParadeState

SpecRun == InitRun /\ [][NextRun]_vars

(***************************************************************************)
(* Properties of a run (SpecRun)                                           *)
(***************************************************************************)
Ran == out.op = "process_full_parade_state"
Returned == Ran /\ ~out.raised

\* the one-based sheet row of the i-th row of the roster
SheetRow(i) == ROSTER_FIRST + i

\* the value of the anchor cell of a merged range
AnchorValue(merge) == Cell(start_row(merge), start_col(merge))

\* C2: every person of the roster whose duty cell of the day is blank, and over
\* whose row and day lies a merged range (of that one row, so that the cell read
\* is the anchor; the person's name in no other row) whose anchor holds an
\* absence reason,
\* leaves update_roster_with_leave_info with that reason and the span as duty
\* (in a run whose leave lookup met no failure).
C2_BlankDutyOverridden ==
    Returned /\ ~out.leave_failed =>
        \A i \in DOMAIN out.roster_before : \A k \in DOMAIN merged_ranges :
            /\ out.roster_before[i].Name /= NaN
            /\ out.roster_before[i].Duty = NaN
            /\ Covers(merged_ranges[k], SheetRow(i), out.date)
            /\ start_row(merged_ranges[k]) = end_row(merged_ranges[k])
            /\ \A j \in DOMAIN out.roster_before :
                   out.roster_before[j].Name = out.roster_before[i].Name => j = i
            /\ _is_leave_cell(AnchorValue(merged_ranges[k]))
            => out.report.roster_df[i].Duty =
                   LeaveInfo(<<Strip(AnchorValue(merged_ranges[k])),
                               start_day(merged_ranges[k]), end_day(merged_ranges[k])>>,
                             CURRENT_MONTH)

\* C3: a row of the roster whose duty cell is not blank keeps its duty.
C3_ExplicitDutyWins ==
    Returned =>
        \A i \in DOMAIN out.roster_before :
            out.roster_before[i].Duty /= NaN
            => out.report.roster_df[i].Duty = out.roster_before[i].Duty

\* the run reached the leave lookup and the lookup met a failure: the tracker could
\* not be set up, or the lookup of one of the names raised
LeaveLookupFails ==
    /\ Ran /\ out.fault.kind \notin {"fetch", "parse"}
    /\ ~extract_date_info(out.date + 2).raised
    /\ LET names == NamesToCheck(prepare_roster_data(out.date + 2))
       IN  /\ names /= <<>>
           /\ \/ out.fault.kind \in InitFaults
              \/ \E k \in DOMAIN names : LookupRaises(names, k, out.fault)

\* C4: when the leave lookup fails, update_roster_with_leave_info catches the
\* failure, the run still returns its report, and the roster of the report is the
\* roster as extracted, no leave written into it.
C4_LeaveFailureLeavesRoster ==
    LeaveLookupFails =>
        /\ ~out.raised
        /\ out.leave_failed
        /\ out.report.roster_df = prepare_roster_data(out.date + 2)

\* the lookup failed at the second name, after a leave was found for the first
C4_Witness ==
    /\ Ran /\ out.leave_failed
    /\ out.fault = [kind |-> "cell_read", at |-> 2]
    /\ LET names == NamesToCheck(out.roster_before)
       IN  /\ Len(names) >= 2
           /\ names[1] \in DOMAIN check_people_on_day(names, 1, out.date)
           /\ check_people_on_day(names, 1, out.date)[names[1]] /= None
    /\ out.report.roster_df = out.roster_before

\* C5: a main grid with fewer rows than the roster window makes the run raise.
C5_ShortGridIsFatal ==
    Ran /\ grid_rows < ROSTER_STOP => out.raised

\* the day a zero-based column of a grid stands for (extract_date_info: col_idx - 2)
DayOfColumn(col_idx) == col_idx - 2
IsDayColumn(col_idx) == DayOfColumn(col_idx) \in Days

\* C8: the two duty columns of the C1/C5 data are the columns of day d - 1 and of
\* day d, both of them day columns.
C8_AdjacentDayColumns ==
    Returned =>
        /\ DayOfColumn(out.report.c1_c5_df.CurrentDayDuty) = out.date
        /\ DayOfColumn(out.report.c1_c5_df.PreviousDayDuty) = out.date - 1
        /\ IsDayColumn(out.report.c1_c5_df.CurrentDayDuty)
        /\ IsDayColumn(out.report.c1_c5_df.PreviousDayDuty)

(***************************************************************************)
(* The Telegram conversation (SpecBot).  Updates are handled one at a time *)
(* (run_polling without concurrent updates), so a handler is one step.     *)
(***************************************************************************)
\* the callback data of the inline buttons: f"main_{id}" and f"c1c5_{id}", as the
\* pieces str.replace looks at
CallbackData == {<<"main_", "1">>, <<"main_", "2">>, <<"c1c5_", "1">>, <<"c1c5_", "2">>}

\* data.replace(prefix, "")
Replace(data, prefix) == SelectSeq(data, LAMBDA piece : piece /= prefix)

Digits == {"0","1","2","3","4","5","6","7","8","9"}
IsNumber(s) == s /= None /\ s /= <<>> /\ \A i \in DOMAIN s : s[i] \in Digits
DigitValue(c) == CHOOSE n \in 0..9 : Digit(n) = c
\* int(s) of a string of digits
ParseInt(s) == IF Len(s) = 1 THEN DigitValue(s[1])
               ELSE 10 * DigitValue(s[1]) + DigitValue(s[2])

\* the texts sent as date
DateTexts == {<<"1">>, <<" ", "2", " ">>, <<"0">>, <<"3", "2">>, <<"x">>, Str(NumDays + 1)}

\* generate_command: the entry point of the conversation
GenerateCommand(chat) ==
    /\ conversations[chat] = END
    /\ \E fetched \in BOOLEAN :
        /\ conversations' = [conversations EXCEPT
                                ![chat] = IF fetched THEN SELECTING_MAIN_SHEET ELSE END]
        /\ out' = [op |-> "generate_command", chat |-> chat,
                   reply |-> IF fetched THEN "select_main_sheet" ELSE "error_fetching"]
    /\ chosen' = [chosen EXCEPT ![chat] = NoChoice]
    /\ UNCHANGED <<world, user_data>>

\* main_sheet_selected: any callback query in SELECTING_MAIN_SHEET
MainSheetSelected(chat) ==
    /\ conversations[chat] = SELECTING_MAIN_SHEET
    /\ \E data \in CallbackData, fetched \in BOOLEAN :
        /\ user_data' = [user_data EXCEPT !.main_sheet_id = Replace(data, "main_")]
        /\ chosen' = [chosen EXCEPT ![chat].main_sheet_id = Replace(data, "main_")]
        /\ conversations' = [conversations EXCEPT
                                ![chat] = IF fetched THEN SELECTING_C1C5_SHEET ELSE END]
        /\ out' = [op |-> "main_sheet_selected", chat |-> chat,
                   reply |-> IF fetched THEN "select_c1c5_sheet" ELSE "error_fetching"]
    /\ UNCHANGED world

\* c1c5_sheet_selected: any callback query in SELECTING_C1C5_SHEET
C1C5SheetSelected(chat) ==
    /\ conversations[chat] = SELECTING_C1C5_SHEET
    /\ \E data \in CallbackData :
        /\ user_data' = [user_data EXCEPT !.c1c5_sheet_id = Replace(data, "c1c5_")]
        /\ chosen' = [chosen EXCEPT ![chat].c1c5_sheet_id = Replace(data, "c1c5_")]
    /\ conversations' = [conversations EXCEPT ![chat] = SELECTING_DATE]
    /\ out' = [op |-> "c1c5_sheet_selected", chat |-> chat, reply |-> "enter_date"]
    /\ UNCHANGED world

\* handle_date: what it does with a text, given what the stores answer
handle_date(text, fault) ==
    LET user_input == Strip(text)
        date == ParseInt(user_input)
        main_sheet_id == user_data.main_sheet_id
        c1c5_sheet_id == user_data.c1c5_sheet_id
        run == process_full_parade_state(
                   build_csv_url(MAIN_SPREADSHEET_ID, main_sheet_id),
                   build_csv_url(C1_C5_SPREADSHEET_ID, c1c5_sheet_id),
                   date + 2, date, CURRENT_MONTH, fault)
        quit(state, reply, ran, raised) ==
            [state |-> state, reply |-> reply, ran |-> ran, raised |-> raised,
             clear |-> FALSE, main_sheet_id |-> main_sheet_id,
             c1c5_sheet_id |-> c1c5_sheet_id]
    IN  IF ~IsNumber(user_input) THEN quit(SELECTING_DATE, "invalid_input", FALSE, FALSE)
        ELSE IF date < 1 \/ date > 31 THEN quit(SELECTING_DATE, "invalid_date", FALSE, FALSE)
        ELSE IF main_sheet_id = None THEN quit(END, "error", FALSE, FALSE)
        ELSE IF ~IsNumber(main_sheet_id) THEN quit(SELECTING_DATE, "invalid_input", FALSE, FALSE)
        ELSE IF run.raised /\ run.error = "ParserError"
             THEN quit(SELECTING_DATE, "invalid_input", TRUE, TRUE)
        ELSE IF run.raised THEN quit(END, "error", TRUE, TRUE)
        ELSE [quit(END, "parade_state", TRUE, FALSE) EXCEPT !.clear = TRUE]

\* handle_date: a text that is no command, in SELECTING_DATE
HandleDate(chat) ==
    /\ conversations[chat] = SELECTING_DATE
    /\ \E text \in DateTexts,
          fault \in {NoFault, [kind |-> "fetch", at |-> 0], [kind |-> "parse", at |-> 0]} :
        LET done == handle_date(text, fault)
        IN  /\ conversations' = [conversations EXCEPT ![chat] = done.state]
            /\ user_data' = IF done.clear THEN NoChoice ELSE user_data
            /\ out' = [op |-> "handle_date", chat |-> chat, text |-> text,
                       reply |-> done.reply, ran |-> done.ran, raised |-> done.raised,
                       main_sheet_id |-> done.main_sheet_id,
                       c1c5_sheet_id |-> done.c1c5_sheet_id]
    /\ UNCHANGED <<world, chosen>>

\* cancel: the fallback of the conversation
Cancel(chat) ==
    /\ conversations[chat] /= END
    /\ user_data' = NoChoice
    /\ conversations' = [conversations EXCEPT ![chat] = END]
    /\ out' = [op |-> "cancel", chat |-> chat, reply |-> "cancelled"]
    /\ UNCHANGED <<world, chosen>>

\* help_command: a handler outside of the conversation
HelpCommand(chat) ==
    /\ out' = [op |-> "help_command", chat |-> chat, reply |-> "help"]
    /\ UNCHANGED <<world, bot>>

InitBot ==
    /\ BotIdle
    /\ out = [op |-> "none"]
    /\ grid_rows = ROSTER_STOP
    /\ merged_ranges = <<>>
    /\ sheet = SheetOf(BaseNames, AllM1, <<>>, ROSTER_STOP)

NextBot ==
    \E chat \in Chats :
        \/ GenerateCommand(chat)
        \/ MainSheetSelected(chat)
        \/ C1C5SheetSelected(chat)
        \/ HandleDate(chat)
        \/ Cancel(chat)
        \/ HelpCommand(chat)

SpecBot == InitBot /\ [][NextBot]_vars

\* C14: the roster window and the leave tracker address the same cells: every row
\* prepare_roster_data reads lies in the tracker's rows START_ROW..END_ROW, the
\* names are in the same column, for every day of 1..31 handle_date's target
\* column (zero-based, date + 2) is the tracker's column of that day, and so
\* _find_person_row locates every person of the roster whose duty is blank.
C14_WindowsAgree ==
    Returned =>
        /\ \A i \in DOMAIN out.roster_before : SheetRow(i) \in START_ROW..END_ROW
        /\ 1 + 1 = NAME_COLUMN
        /\ \A d \in 1..31 : (d + 2) + 1 = DayColumn(d)
        /\ \A i \in DOMAIN out.roster_before :
               /\ out.roster_before[i].Name /= NaN
               /\ out.roster_before[i].Duty = NaN
               => _find_person_row(out.roster_before[i].Name).row /= NoRow

(***************************************************************************)
(* Properties of the conversation (SpecBot)                                *)
(***************************************************************************)
\* C7: the run a date entry starts in a chat uses the main sheet id and the C1/C5
\* sheet id picked in the conversation of that chat.
C7_RunUsesOwnSelection ==
    out.op = "handle_date" /\ out.ran =>
        /\ out.main_sheet_id = chosen[out.chat].main_sheet_id
        /\ out.c1c5_sheet_id = chosen[out.chat].c1c5_sheet_id

\* the trimmed text of a date entry parses as an integer of 1..31
ValidDate(text) == IsNumber(Strip(text)) /\ ParseInt(Strip(text)) \in 1..31

\* C12: a text in SELECTING_DATE starts a run exactly when its trimmed text parses
\* as an integer of 1..31; for every other text the handler replies that the date
\* is invalid, starts no run, leaves user_data as it was and keeps the
\* conversation in SELECTING_DATE.
C12_RunIffValidDate ==
    out.op = "handle_date" =>
        /\ out.ran <=> ValidDate(out.text)
        /\ ~ValidDate(out.text) =>
               /\ out.reply \in {"invalid_input", "invalid_date"}
               /\ conversations[out.chat] = SELECTING_DATE
               /\ user_data = [main_sheet_id |-> out.main_sheet_id,
                               c1c5_sheet_id |-> out.c1c5_sheet_id]

\* C13: a date entry whose text is a valid date ends the conversation, whether the
\* run succeeds or fails; the conversation does not stay in SELECTING_DATE with
\* the reply "invalid input".
C13_ValidDateEndsConversation ==
    out.op = "handle_date" /\ ValidDate(out.text) =>
        /\ conversations[out.chat] = END
        /\ out.reply /= "invalid_input"

====
